---- MODULE Spec2Model ----
(***************************************************************************)
(* Model of firebase::firestore::bundle::BundleLoader                      *)
(* (Firestore/core/src/bundle/bundle_loader.cc): the element accumulator   *)
(* AddElement, the reconciler ApplyChanges and GetQueryDocumentMapping.    *)
(***************************************************************************)
EXTENDS Bags, FiniteSets, Integers, Sequences, TLC

\* ------------------------------------------------------------------ bounds
MaxElements == 3
MaxApplies == 2

\* ------------------------------------------------------- input universes
Keys == {"A", "B"}
QueryNames == {"q1", "q2"}
Contents == {"X"}
ReadTimes == {"t1"}
ByteSizes == {0, 1}

\* absl::nullopt
None == "nullopt"

\* The query-name lists (std::vector<std::string>) a document's metadata carries.
QueryLists == {<<"q1">>, <<"q2", "q1">>}

\* BundleElementType::NamedQuery elements (query_name()).
NamedQueryElements == {[type |-> "NamedQuery", query_name |-> n] : n \in QueryNames}

\* BundleElementType::DocumentMetadata elements (key(), exists(), read_time(), queries()).
DocumentMetadataElements ==
    {[type |-> "DocumentMetadata", key |-> k, exists |-> e, read_time |-> t, queries |-> qs] :
        k \in Keys, e \in BOOLEAN, t \in ReadTimes,
        qs \in QueryLists}

\* model::Document held by a BundleDocument.
ModelDocument(k, c) == [kind |-> "Document", key |-> k, data |-> c]

\* BundleElementType::Document elements (key(), document()).
DocumentElements ==
    {[type |-> "Document", key |-> k, document |-> ModelDocument(k, c)] :
        k \in Keys, c \in Contents}

\* BundleElementType::Metadata elements, which AddElement asserts never to receive.
MetadataElements == {[type |-> "Metadata"]}

BundleElements ==
    NamedQueryElements \cup DocumentMetadataElements \cup DocumentElements \cup MetadataElements

\* model::NoDocument(key, read_time, has_committed_mutations)
NoDocument(k, t, m) ==
    [kind |-> "NoDocument", key |-> k, version |-> t, has_committed_mutations |-> m]

\* The BundleMetadata values a loader is constructed with.
BundleMetadatas ==
    {[bundle_id |-> "bundle-1", total_documents |-> n, total_bytes |-> MaxElements] :
        n \in 0..Cardinality(Keys)}

\* ------------------------------------------------------------------ state
VARIABLES
    metadata_,            \* BundleMetadata, fixed at construction
    queries_,             \* std::vector<NamedQuery>
    documents_metadata_,  \* std::unordered_map<DocumentKey, BundledDocumentMetadata>
    documents_,           \* model::MaybeDocumentMap (immutable sorted map)
    bytes_loaded_,        \* uint64_t
    current_document_,    \* absl::optional<DocumentKey>
    callback_,            \* the calls received by the BundleCallback, in order
    result,               \* the last call made and what it returned
    aborted,              \* TRUE once a HARD_ASSERT has failed
    adds,                 \* number of AddElement calls made
    applies,              \* number of ApplyChanges calls made
    fed,                  \* summary of the element of the previous AddElement call
    handled,              \* summary of the last element other than a NamedQuery that
                          \* AddElement accepted
    sizes,                \* bag of the byte sizes of the AddElement calls that succeeded
    ordered,              \* TRUE while every Document element fed came directly after an
                          \* existence-true DocumentMetadata element for its key
    delivered             \* the keys of the Document elements fed in that way

vars == <<metadata_, queries_, documents_metadata_, documents_, bytes_loaded_,
          current_document_, callback_, result, aborted, adds, applies, fed,
          handled, sizes, ordered, delivered>>

\* The history variables before any element was fed.
NoElement == [type |-> "None", key |-> None, exists |-> FALSE]

\* absl::optional<LoadBundleTaskProgress>: absl::nullopt and absl::make_optional(p).
NoProgress == [has_value |-> FALSE]
SomeProgress(p) == [has_value |-> TRUE, value |-> p]

\* The empty map.
EmptyMap == [k \in {} |-> None]

\* immutable::SortedMap::insert: a new map in which k maps to v, replacing any
\* previous value of k.
SortedMapInsert(m, k, v) == [x \in DOMAIN m \cup {k} |-> IF x = k THEN v ELSE m[x]]

\* std::unordered_map::insert({k, v}): inserts only when k has no entry yet.
UnorderedMapInsert(m, k, v) ==
    IF k \in DOMAIN m THEN m ELSE [x \in DOMAIN m \cup {k} |-> IF x = k THEN v ELSE m[x]]

\* documents_.size()
Size(m) == Cardinality(DOMAIN m)

Init ==
    /\ metadata_ \in BundleMetadatas
    /\ queries_ = <<>>
    /\ documents_metadata_ = EmptyMap
    /\ documents_ = EmptyMap
    /\ bytes_loaded_ = 0
    /\ current_document_ = None
    /\ callback_ = <<>>
    /\ result = [op |-> "none"]
    /\ aborted = FALSE
    /\ adds = 0
    /\ applies = 0
    /\ fed = NoElement
    /\ handled = NoElement
    /\ sizes = EmptyBag
    /\ ordered = TRUE
    /\ delivered = {}

\* LoadBundleTaskProgress(documents_loaded, total_documents, bytes_loaded, total_bytes, state)
LoadBundleTaskProgress(dl, td, bl, tb, st) ==
    [documents_loaded |-> dl, total_documents |-> td, bytes_loaded |-> bl,
     total_bytes |-> tb, state |-> st]

\* What the history variables keep of an element: its type, and the key and
\* existence flag where it has them.
Summary(element) ==
    [type |-> element.type,
     key |-> IF element.type \in {"DocumentMetadata", "Document"} THEN element.key ELSE None,
     exists |-> IF element.type = "DocumentMetadata" THEN element.exists ELSE TRUE]

\* The loader's fields as one value.
Loader ==
    [queries |-> queries_, documents_metadata |-> documents_metadata_,
     documents |-> documents_, current_document |-> current_document_]

\* Faulty variant: named queries are dropped once ApplyChanges has been called.
HandleNamedQueryUntilApplied(l, element) ==
    IF applies > 0 THEN l ELSE [l EXCEPT !.queries = Append(@, element)]

\* AddElement, NamedQuery branch: queries_.push_back(element).
HandleNamedQuery(l, element) ==
    [l EXCEPT !.queries = Append(@, element)]

\* Faulty variant: a tombstone is inserted but the pending marker stays set.
HandleDocumentMetadataKeepsMarker(l, element) ==
    LET recorded ==
            [l EXCEPT !.current_document = element.key,
                      !.documents_metadata = UnorderedMapInsert(@, element.key, element)]
    IN  IF ~element.exists
        THEN [recorded EXCEPT
                !.documents = SortedMapInsert(@, element.key,
                                  NoDocument(element.key, element.read_time, FALSE))]
        ELSE recorded

\* AddElement, DocumentMetadata branch.
HandleDocumentMetadata(l, element) ==
    LET recorded ==
            [l EXCEPT !.current_document = element.key,
                      !.documents_metadata = UnorderedMapInsert(@, element.key, element)]
    IN  IF ~element.exists
        THEN [recorded EXCEPT
                !.documents = SortedMapInsert(@, element.key,
                                  NoDocument(element.key, element.read_time, FALSE)),
                !.current_document = None]
        ELSE recorded

\* Faulty variant: a document is rejected only when nothing is pending.
DocumentRejectedWhenEmpty(current, key) ==
    current = None

\* Faulty variant: no document is ever rejected.
DocumentRejectedNever(current, key) ==
    FALSE

\* AddElement, Document branch: the test that rejects the document.
DocumentRejected(current, key) ==
    current = None \/ key # current

\* Faulty variant: the accepted document is stored but the pending marker stays set.
HandleDocumentKeepsMarker(l, element) ==
    [l EXCEPT !.documents = SortedMapInsert(@, element.key, element.document)]

\* Faulty variant: the pending marker is cleared but the document is not stored.
HandleDocumentDropping(l, element) ==
    [l EXCEPT !.current_document = None]

\* Faulty variant: the pending marker is set to the document's key.
HandleDocumentMarksKey(l, element) ==
    [l EXCEPT !.documents = SortedMapInsert(@, element.key, element.document),
              !.current_document = element.key]

\* AddElement, Document branch once the document is accepted.
HandleDocument(l, element) ==
    [l EXCEPT !.documents = SortedMapInsert(@, element.key, element.document),
              !.current_document = None]

\* Faulty variant: bytes_loaded_ = byte_size
AddBytesAssign(bytes, byte_size) == byte_size

\* bytes_loaded_ += byte_size
AddBytes(bytes, byte_size) == bytes + byte_size

\* Faulty variant: a progress snapshot is returned whatever the document count did.
ProgressResultAlways(before_count, documents, bytes, metadata) ==
    SomeProgress(LoadBundleTaskProgress(Size(documents), metadata.total_documents,
                                        bytes, metadata.total_bytes, "Running"))

\* Faulty variant: the byte counter and the declared total bytes are swapped.
ProgressResultSwapped(before_count, documents, bytes, metadata) ==
    IF before_count = Size(documents)
    THEN NoProgress
    ELSE SomeProgress(LoadBundleTaskProgress(Size(documents), metadata.total_documents,
                                             metadata.total_bytes, bytes, "Running"))

\* The value AddElement returns on success: absl::nullopt or a progress snapshot.
ProgressResult(before_count, documents, bytes, metadata) ==
    IF before_count = Size(documents)
    THEN NoProgress
    ELSE SomeProgress(LoadBundleTaskProgress(Size(documents), metadata.total_documents,
                                             bytes, metadata.total_bytes, "Running"))

\* HARD_ASSERT(condition, ...): the call goes on when the condition holds and
\* the process aborts when it does not.
HardAssert(condition) == IF condition THEN "Pass" ELSE "Abort"

\* Faulty variant: the element type is not asserted.
ElementAssertedAlways(element) == TRUE

\* The condition AddElement asserts of its element.
ElementAsserted(element) == element.type # "Metadata"

\* The element comes directly after an existence-true DocumentMetadata element
\* for its key.
DirectlyAnnounced(previous, element) ==
    previous.type = "DocumentMetadata" /\ previous.exists /\ previous.key = element.key

\* Faulty variant: the byte size of a rejected element is counted.
RejectionCountingBytes(l, bytes, byte_size) ==
    [status |-> "InvalidArgument", loader |-> l, bytes |-> bytes + byte_size,
     progress |-> NoProgress]

\* The early return of the Document branch: an error status, every field as it was.
Rejection(l, bytes, byte_size) ==
    [status |-> "InvalidArgument", loader |-> l, bytes |-> bytes, progress |-> NoProgress]

\* What one AddElement call does to the loader: the status it returns, the
\* loader's fields and byte counter afterwards, and the progress it reports.
AddElementOutcome(l, bytes, metadata, element, byte_size) ==
    LET before_count == Size(l.documents)
        rejected == element.type = "Document" /\ DocumentRejected(l.current_document, element.key)
        after == CASE element.type = "NamedQuery" -> HandleNamedQuery(l, element)
                   [] element.type = "DocumentMetadata" -> HandleDocumentMetadata(l, element)
                   [] element.type = "Document" -> HandleDocument(l, element)
                   [] OTHER -> l
    IN  IF rejected
        THEN Rejection(l, bytes, byte_size)
        ELSE [status |-> "Ok", loader |-> after, bytes |-> AddBytes(bytes, byte_size),
              progress |-> ProgressResult(before_count, after.documents,
                                          AddBytes(bytes, byte_size), metadata)]

\* BundleLoader::AddElement(element, byte_size)
AddElement(element, byte_size) ==
    /\ ~aborted
    /\ adds < MaxElements
    /\ adds' = adds + 1
    /\ fed' = Summary(element)
    /\ UNCHANGED <<metadata_, callback_, applies>>
    /\ ordered' = (ordered /\ (element.type = "Document" => DirectlyAnnounced(fed, element)))
    /\ delivered' = IF element.type = "Document" /\ DirectlyAnnounced(fed, element)
                    THEN delivered \cup {element.key} ELSE delivered
    /\ IF HardAssert(ElementAsserted(element)) = "Abort"
       THEN /\ aborted' = TRUE
            /\ result' = [op |-> "AddElement", type |-> element.type, status |-> "Abort"]
            /\ UNCHANGED <<queries_, documents_metadata_, documents_, bytes_loaded_,
                           current_document_, handled, sizes>>
       ELSE LET out == AddElementOutcome(Loader, bytes_loaded_, metadata_, element, byte_size)
            IN  /\ queries_' = out.loader.queries
                /\ documents_metadata_' = out.loader.documents_metadata
                /\ documents_' = out.loader.documents
                /\ current_document_' = out.loader.current_document
                /\ bytes_loaded_' = out.bytes
                /\ result' = [op |-> "AddElement", type |-> element.type,
                              status |-> out.status, progress |-> out.progress]
                /\ handled' = IF out.status = "Ok" /\ element.type # "NamedQuery"
                              THEN Summary(element) ELSE handled
                /\ sizes' = IF out.status = "Ok" THEN sizes (+) SetToBag({byte_size}) ELSE sizes
                /\ UNCHANGED aborted

\* std::unordered_map::operator[]: the value of k, default-constructed when absent.
Lookup(m, k) == IF k \in DOMAIN m THEN m[k] ELSE {}

\* First loop of GetQueryDocumentMapping: an empty key set for every named query.
RECURSIVE InsertQueryNames(_, _)
InsertQueryNames(m, qs) ==
    IF qs = <<>> THEN m
    ELSE InsertQueryNames(UnorderedMapInsert(m, Head(qs).query_name, {}), Tail(qs))

\* Faulty variant: result[query] is replaced by the document's key alone.
RECURSIVE InsertKeyForQueriesReplacing(_, _, _)
InsertKeyForQueriesReplacing(m, key, qs) ==
    IF qs = <<>> THEN m
    ELSE InsertKeyForQueriesReplacing(SortedMapInsert(m, Head(qs), {key}), key, Tail(qs))

\* Faulty variant: a query name that has no entry yet is skipped.
RECURSIVE InsertKeyForQueriesDeclared(_, _, _)
InsertKeyForQueriesDeclared(m, key, qs) ==
    IF qs = <<>> THEN m
    ELSE InsertKeyForQueriesDeclared(
             IF Head(qs) \in DOMAIN m
             THEN SortedMapInsert(m, Head(qs), m[Head(qs)] \cup {key})
             ELSE m,
             key, Tail(qs))

\* Inner loop of GetQueryDocumentMapping: result[query] gains the document's key.
RECURSIVE InsertKeyForQueries(_, _, _)
InsertKeyForQueries(m, key, qs) ==
    IF qs = <<>> THEN m
    ELSE InsertKeyForQueries(SortedMapInsert(m, Head(qs), Lookup(m, Head(qs)) \cup {key}),
                             key, Tail(qs))

\* Second loop of GetQueryDocumentMapping, over the entries of documents_metadata_.
RECURSIVE InsertDocumentKeys(_, _, _)
InsertDocumentKeys(m, docs_metadata, remaining) ==
    IF remaining = {} THEN m
    ELSE LET k == CHOOSE x \in remaining : TRUE
             doc_metadata == docs_metadata[k]
         IN  InsertDocumentKeys(InsertKeyForQueries(m, doc_metadata.key, doc_metadata.queries),
                                docs_metadata, remaining \ {k})

\* BundleLoader::GetQueryDocumentMapping()
GetQueryDocumentMapping(queries, docs_metadata) ==
    InsertDocumentKeys(InsertQueryNames(EmptyMap, queries), docs_metadata, DOMAIN docs_metadata)

\* The SaveNamedQuery calls of ApplyChanges, one per element of queries_, in order.
RECURSIVE SaveNamedQueryCalls(_, _)
SaveNamedQueryCalls(queries, query_document_map) ==
    IF queries = <<>> THEN <<>>
    ELSE <<[fn |-> "SaveNamedQuery", named_query |-> Head(queries),
            matching_keys |-> Lookup(query_document_map, Head(queries).query_name)]>>
         \o SaveNamedQueryCalls(Tail(queries), query_document_map)

\* Faulty variant: only the pending marker is checked.
ApplyChangesRejectedMarkerOnly(current, metadata, documents) ==
    current # None

\* Faulty variant: only the document count is checked.
ApplyChangesRejectedCountOnly(current, metadata, documents) ==
    metadata.total_documents # Size(documents)

\* The checks ApplyChanges makes before it touches the callback.
ApplyChangesRejected(current, metadata, documents) ==
    \/ current # None
    \/ metadata.total_documents # Size(documents)

\* Faulty variant: the bundle is saved before its named queries.
CallbackCallsBundleFirst(l, metadata, changes) ==
    <<[fn |-> "ApplyBundledDocuments", documents |-> l.documents,
       bundle_id |-> metadata.bundle_id, returned |-> changes]>>
    \o <<[fn |-> "SaveBundle", metadata |-> metadata]>>
    \o SaveNamedQueryCalls(l.queries, GetQueryDocumentMapping(l.queries, l.documents_metadata))

\* The callback calls a successful ApplyChanges makes, in order; changes is what
\* ApplyBundledDocuments returned.
CallbackCalls(l, metadata, changes) ==
    <<[fn |-> "ApplyBundledDocuments", documents |-> l.documents,
       bundle_id |-> metadata.bundle_id, returned |-> changes]>>
    \o SaveNamedQueryCalls(l.queries, GetQueryDocumentMapping(l.queries, l.documents_metadata))
    \o <<[fn |-> "SaveBundle", metadata |-> metadata]>>

\* What ApplyChanges returns on success.
ApplyChangesValue(l, changes) == changes

\* The maps ApplyBundledDocuments may return: every document changed, or none did.
ChangedDocuments(documents) == {documents, EmptyMap}

\* Faulty variant: a successful ApplyChanges empties the loader.
ApplyChangesConsuming ==
    /\ ~aborted
    /\ applies < MaxApplies
    /\ applies' = applies + 1
    /\ UNCHANGED <<metadata_, documents_metadata_, bytes_loaded_, current_document_,
                   aborted, adds, fed, handled, sizes, ordered, delivered>>
    /\ IF ApplyChangesRejected(current_document_, metadata_, documents_)
       THEN /\ result' = [op |-> "ApplyChanges", status |-> "InvalidArgument"]
            /\ UNCHANGED <<callback_, queries_, documents_>>
       ELSE \E changes \in ChangedDocuments(documents_) :
            /\ callback_' = callback_ \o CallbackCalls(Loader, metadata_, changes)
            /\ result' = [op |-> "ApplyChanges", status |-> "Ok",
                          value |-> ApplyChangesValue(Loader, changes)]
            /\ queries_' = <<>>
            /\ documents_' = EmptyMap

\* BundleLoader::ApplyChanges()
ApplyChanges ==
    /\ ~aborted
    /\ applies < MaxApplies
    /\ applies' = applies + 1
    /\ UNCHANGED <<metadata_, queries_, documents_metadata_, documents_, bytes_loaded_,
                   current_document_, aborted, adds, fed, handled, sizes, ordered,
                   delivered>>
    /\ IF ApplyChangesRejected(current_document_, metadata_, documents_)
       THEN /\ result' = [op |-> "ApplyChanges", status |-> "InvalidArgument"]
            /\ UNCHANGED callback_
       ELSE \E changes \in ChangedDocuments(documents_) :
            /\ callback_' = callback_ \o CallbackCalls(Loader, metadata_, changes)
            /\ result' = [op |-> "ApplyChanges", status |-> "Ok",
                          value |-> ApplyChangesValue(Loader, changes)]

Next ==
    \/ \E element \in BundleElements, byte_size \in ByteSizes : AddElement(element, byte_size)
    \/ ApplyChanges

Spec == Init /\ [][Next]_vars

\* ------------------------------------------------------------ properties

\* The step is an AddElement call / an ApplyChanges call.
AddElementStep == adds' = adds + 1
ApplyChangesStep == applies' = applies + 1

\* The element types of a std::vector<std::string> of query names.
Range(seq) == {seq[i] : i \in 1..Len(seq)}

\* The sum of the elements of a bag of numbers.
RECURSIVE SumOver(_, _)
SumOver(B, S) ==
    IF S = {} THEN 0
    ELSE LET x == CHOOSE y \in S : TRUE
         IN  x * CopiesIn(x, B) + SumOver(B, S \ {x})
BagSum(B) == SumOver(B, BagToSet(B))

\* The callback calls made by the most recent successful ApplyChanges, when
\* that is the last call made.
LastCommit ==
    SubSeq(callback_, Len(callback_) - Len(queries_) - 1, Len(callback_))

\* C1: AddElement with a Document element for key k returns invalid-argument
\* exactly when the pending marker is empty or holds another key; otherwise it
\* stores the document's content under k and clears the marker.
C1_DocumentNeedsPendingKey ==
    [][\A element \in DocumentElements, byte_size \in ByteSizes :
         AddElement(element, byte_size) =>
           /\ (result'.status = "InvalidArgument") <=>
                  (current_document_ = None \/ current_document_ # element.key)
           /\ result'.status # "InvalidArgument" =>
                  /\ result'.status = "Ok"
                  /\ element.key \in DOMAIN documents_'
                  /\ documents_'[element.key] = element.document
                  /\ DOMAIN documents_' = DOMAIN documents_ \cup {element.key}
                  /\ current_document_' = None]_vars

C1_Witness ==
    /\ result.op = "AddElement"
    /\ result.type = "Document"
    /\ result.status = "Ok"
    /\ fed.key \in DOMAIN documents_
    /\ documents_[fed.key].kind = "Document"
    /\ current_document_ = None

\* C2 as stated: a Document element whose directly preceding element fed to
\* AddElement is not an existence-true DocumentMetadata element for the same
\* key is rejected, and no document is added.
C2_Original ==
    [][\A element \in DocumentElements, byte_size \in ByteSizes :
         (/\ AddElement(element, byte_size)
          /\ ~(fed.type = "DocumentMetadata" /\ fed.exists /\ fed.key = element.key)) =>
           /\ result'.status = "InvalidArgument"
           /\ documents_' = documents_]_vars

\* C2 amended: a Document element for key k is rejected, and no document is
\* added, unless the last element AddElement accepted, NamedQuery elements
\* aside, is an existence-true DocumentMetadata element for k.
C2_DocumentNeedsMatchingMetadata ==
    [][\A element \in DocumentElements, byte_size \in ByteSizes :
         (/\ AddElement(element, byte_size)
          /\ ~(/\ handled.type = "DocumentMetadata"
               /\ handled.exists
               /\ handled.key = element.key)) =>
           /\ result'.status = "InvalidArgument"
           /\ documents_' = documents_]_vars

C2_Witness ==
    /\ result.op = "AddElement"
    /\ result.type = "Document"
    /\ result.status = "InvalidArgument"
    /\ handled.type = "DocumentMetadata"
    /\ handled.key # fed.key

\* C3: ApplyChanges succeeds exactly when the pending marker is empty and the
\* number of accumulated documents equals the declared total; in every other
\* state it returns invalid-argument.
C3_ApplyChangesChecks ==
    result.op = "ApplyChanges" =>
        /\ result.status \in {"Ok", "InvalidArgument"}
        /\ (result.status = "Ok") <=>
               (/\ current_document_ = None
                /\ Cardinality(DOMAIN documents_) = metadata_.total_documents)

C3_Witness ==
    /\ result.op = "ApplyChanges"
    /\ result.status = "Ok"
    /\ Cardinality(DOMAIN documents_) = 2

\* C4: the callback is invoked only inside an ApplyChanges call that found the
\* pending marker empty and the document count equal to the declared total:
\* AddElement calls and failing ApplyChanges calls leave the number of
\* callback invocations at zero.
C4_PersistenceOnlyOnCommit ==
    /\ callback_ = <<>>
    /\ [][callback_' # callback_ =>
            /\ ApplyChangesStep
            /\ result'.op = "ApplyChanges"
            /\ result'.status = "Ok"
            /\ current_document_ = None
            /\ metadata_.total_documents = Cardinality(DOMAIN documents_)]_vars

C4_Witness ==
    /\ result.op = "ApplyChanges"
    /\ result.status = "InvalidArgument"
    /\ adds = MaxElements
    /\ applies = MaxApplies
    /\ Cardinality(DOMAIN documents_) > 0
    /\ callback_ = <<>>

\* C5: a successful ApplyChanges calls ApplyBundledDocuments once with the
\* accumulated documents and the bundle id, then SaveNamedQuery once per
\* received NamedQuery element in receipt order, then SaveBundle once with the
\* bundle metadata, and returns what ApplyBundledDocuments returned.
C5_CommitOrder ==
    [][(ApplyChangesStep /\ result'.status = "Ok") =>
         \E returned \in ChangedDocuments(documents_) :
           /\ Len(callback_') = Len(callback_) + Len(queries_) + 2
           /\ SubSeq(callback_', 1, Len(callback_)) = callback_
           /\ callback_'[Len(callback_) + 1] =
                  [fn |-> "ApplyBundledDocuments", documents |-> documents_,
                   bundle_id |-> metadata_.bundle_id, returned |-> returned]
           /\ \A i \in 1..Len(queries_) :
                  /\ callback_'[Len(callback_) + 1 + i].fn = "SaveNamedQuery"
                  /\ callback_'[Len(callback_) + 1 + i].named_query = queries_[i]
           /\ callback_'[Len(callback_')] = [fn |-> "SaveBundle", metadata |-> metadata_]
           /\ result'.value = returned]_vars

C5_Witness ==
    /\ result.op = "ApplyChanges"
    /\ result.status = "Ok"
    /\ Len(queries_) = 2
    /\ queries_[1] = queries_[2]
    /\ Cardinality(DOMAIN documents_) = 1
    /\ Len(callback_) = 4

\* The keys whose entry in the metadata index lists the query name.
KeysListing(name) ==
    {k \in DOMAIN documents_metadata_ : name \in Range(documents_metadata_[k].queries)}

\* C6: every received named query's name is a key of the query-document
\* mapping, its key set there is exactly the keys whose entry in the metadata
\* index lists the name (empty when none does), and that is the key set
\* SaveNamedQuery receives for it.
C6_MatchingKeys ==
    /\ \A i \in 1..Len(queries_) :
           LET name == queries_[i].query_name
               mapping == GetQueryDocumentMapping(queries_, documents_metadata_)
           IN  /\ name \in DOMAIN mapping
               /\ mapping[name] = KeysListing(name)
    /\ (result.op = "ApplyChanges" /\ result.status = "Ok") =>
           \A i \in 1..Len(queries_) :
               LastCommit[i + 1].matching_keys = KeysListing(queries_[i].query_name)

C6_Witness ==
    /\ result.op = "ApplyChanges"
    /\ result.status = "Ok"
    /\ Len(queries_) = 1
    /\ LastCommit[2].matching_keys = {"A", "B"}

\* C7: AddElement with an existence-false DocumentMetadata element maps the
\* key to the tombstone (key, the element's read time, no committed mutations)
\* and leaves the pending marker empty, so that ApplyChanges is not rejected
\* for pending metadata.
C7_TombstoneNeedsNoDocument ==
    [][\A element \in DocumentMetadataElements, byte_size \in ByteSizes :
         (AddElement(element, byte_size) /\ ~element.exists) =>
           /\ result'.status = "Ok"
           /\ element.key \in DOMAIN documents_'
           /\ documents_'[element.key] =
                  [kind |-> "NoDocument", key |-> element.key,
                   version |-> element.read_time, has_committed_mutations |-> FALSE]
           /\ current_document_' = None]_vars

C7_Witness ==
    /\ result.op = "ApplyChanges"
    /\ result.status = "Ok"
    /\ fed.type = "DocumentMetadata"
    /\ ~fed.exists
    /\ documents_[fed.key].kind = "NoDocument"

\* C8: a successful AddElement returns a progress value exactly when the
\* document count grew in the call; never for a NamedQuery element, for an
\* existence-true DocumentMetadata element, or for a key already accumulated.
C8_ProgressIffCountGrew ==
    [][\A element \in BundleElements, byte_size \in ByteSizes :
         (AddElement(element, byte_size) /\ result'.status = "Ok") =>
           /\ result'.progress.has_value <=>
                  Cardinality(DOMAIN documents_') > Cardinality(DOMAIN documents_)
           /\ element.type = "NamedQuery" => ~result'.progress.has_value
           /\ (element.type = "DocumentMetadata" /\ element.exists) =>
                  ~result'.progress.has_value
           /\ (element.type \in {"DocumentMetadata", "Document"}
                 /\ element.key \in DOMAIN documents_) =>
                  ~result'.progress.has_value]_vars

C8_Witness ==
    /\ result.op = "AddElement"
    /\ result.type = "Document"
    /\ result.status = "Ok"
    /\ ~result.progress.has_value
    /\ Cardinality(DOMAIN documents_) = 1

\* C9 as stated: a DocumentMetadata element for a key that already has an
\* entry in the metadata index replaces that entry, so that the query-document
\* mapping lists the key under the query names of the latest metadata.
C9_Original ==
    [][\A element \in DocumentMetadataElements, byte_size \in ByteSizes :
         AddElement(element, byte_size) =>
           /\ element.key \in DOMAIN documents_metadata_'
           /\ documents_metadata_'[element.key] = element
           /\ \A name \in QueryNames :
                  element.key \in Lookup(GetQueryDocumentMapping(queries_', documents_metadata_'),
                                         name)
                      <=> name \in Range(element.queries)]_vars

\* C10: while every AddElement call has succeeded, the bytes-loaded counter is
\* the sum of the byte sizes of the calls, whatever their kinds and order.
C10_BytesAdditive ==
    BagCardinality(sizes) = adds => bytes_loaded_ = BagSum(sizes)

C10_Witness ==
    /\ adds = MaxElements
    /\ BagCardinality(sizes) = adds
    /\ bytes_loaded_ >= 2
    /\ CopiesIn(0, sizes) >= 1
    /\ Len(queries_) >= 1
    /\ Cardinality(DOMAIN documents_) >= 1

\* Every AddElement call so far returned a value: none was rejected, none aborted.
AllAccepted == BagCardinality(sizes) = adds

\* The document of key k is in the accumulated documents.
DocumentPresent(k) ==
    k \in DOMAIN documents_ /\ documents_[k].kind = "Document" /\ documents_[k].key = k

Write(call) ==
    IF call.fn = "ApplyBundledDocuments"
    THEN [fn |-> call.fn, documents |-> call.documents, bundle_id |-> call.bundle_id]
    ELSE call

\* The writes among the calls from position from to position to of the callback's log.
Writes(log, from, to) == [i \in 1..(to - from + 1) |-> Write(log[from + i - 1])]

\* C12: ApplyChanges leaves every field of the loader as it was, so that an
\* ApplyChanges call that directly follows a successful one succeeds again and
\* issues the same writes again.
C12_ApplyChangesRepeats ==
    [][ApplyChangesStep =>
         /\ UNCHANGED <<documents_, documents_metadata_, queries_, current_document_,
                        bytes_loaded_>>
         /\ (result.op = "ApplyChanges" /\ result.status = "Ok") =>
                /\ result'.status = "Ok"
                /\ Len(callback_') = Len(callback_) + Len(queries_) + 2
                /\ Writes(callback_', Len(callback_) + 1, Len(callback_')) =
                       Writes(callback_, Len(callback_) - Len(queries_) - 1, Len(callback_))]_vars

C12_Witness ==
    /\ result.op = "ApplyChanges"
    /\ result.status = "Ok"
    /\ applies = 2
    /\ Len(queries_) = 1
    /\ Cardinality(DOMAIN documents_) = 1
    /\ Len(callback_) = 6
    /\ Writes(callback_, 1, 3) = Writes(callback_, 4, 6)

\* C13 as stated: once ApplyChanges has been called, an AddElement call adds
\* nothing to the loader.
C13_Original ==
    [][(AddElementStep /\ applies > 0) =>
         UNCHANGED <<documents_, documents_metadata_, queries_, bytes_loaded_>>]_vars

\* C13 amended: the loader does not refuse elements after ApplyChanges; an
\* AddElement call made then handles a NamedQuery or DocumentMetadata element
\* as it does before: the call succeeds, the named query is appended, the
\* metadata's key is in the index, a tombstone is stored for an existence-false
\* element and the byte counter grows by the byte size.
C13_AddElementAfterApplyChanges ==
    [][(/\ AddElementStep
        /\ applies > 0
        /\ fed'.type \in {"NamedQuery", "DocumentMetadata"}) =>
         /\ result'.status = "Ok"
         /\ bytes_loaded_' - bytes_loaded_ \in ByteSizes
         /\ sizes' = sizes (+) SetToBag({bytes_loaded_' - bytes_loaded_})
         /\ fed'.type = "NamedQuery" =>
                /\ Len(queries_') = Len(queries_) + 1
                /\ SubSeq(queries_', 1, Len(queries_)) = queries_
                /\ queries_'[Len(queries_')] \in NamedQueryElements
         /\ fed'.type = "DocumentMetadata" =>
                /\ fed'.key \in DOMAIN documents_metadata_'
                /\ ~fed'.exists => /\ fed'.key \in DOMAIN documents_'
                                   /\ documents_'[fed'.key].kind = "NoDocument"]_vars

C13_Witness ==
    /\ result.op = "AddElement"
    /\ result.status = "Ok"
    /\ applies > 0
    /\ fed.type = "NamedQuery"
    /\ Len(queries_) = 1
    /\ callback_ # <<>>
    /\ Len(callback_) = 2

\* C14: AddElement with a Metadata element aborts: it returns no status, and
\* no field of the loader changes before the abort.
C14_MetadataElementAborts ==
    [][(AddElementStep /\ fed'.type = "Metadata") =>
         /\ result'.status = "Abort"
         /\ aborted'
         /\ UNCHANGED <<documents_, documents_metadata_, queries_, current_document_,
                        bytes_loaded_, callback_>>]_vars

C14_Witness ==
    /\ aborted
    /\ result.status = "Abort"
    /\ fed.type = "Metadata"
    /\ Cardinality(DOMAIN documents_) = 1
    /\ current_document_ # None

\* C15: an AddElement call that returns invalid-argument leaves the accumulated
\* documents, the metadata index, the named queries, the pending marker and
\* the byte counter as they were.
C15_RejectionChangesNothing ==
    [][(AddElementStep /\ result'.status = "InvalidArgument") =>
         /\ fed'.type = "Document"
         /\ UNCHANGED <<documents_, documents_metadata_, queries_, current_document_,
                        bytes_loaded_>>]_vars

C15_Witness ==
    /\ result.op = "AddElement"
    /\ result.status = "InvalidArgument"
    /\ current_document_ # None
    /\ fed.key # current_document_
    /\ bytes_loaded_ = 1
    /\ adds = 3

\* C16: whenever the pending marker holds key k, the last element AddElement
\* accepted, NamedQuery elements aside, is an existence-true DocumentMetadata
\* element for k (so no Document for k has been accepted since).
C16_MarkerOnlyWhilePending ==
    current_document_ # None =>
        /\ handled.type = "DocumentMetadata"
        /\ handled.exists
        /\ handled.key = current_document_
        /\ current_document_ \in DOMAIN documents_metadata_

C16_Witness ==
    /\ current_document_ # None
    /\ result.op = "AddElement"
    /\ fed.type = "NamedQuery"
    /\ handled.key = current_document_
    /\ Cardinality(DOMAIN documents_) = 1

\* C17: a progress snapshot returned by AddElement reports the document count
\* and the byte counter as they are after the call, the total documents and
\* total bytes declared in the bundle metadata, and state Running.
C17_ProgressSnapshot ==
    (result.op = "AddElement" /\ result.status = "Ok" /\ result.progress.has_value) =>
        /\ result.progress.value =
               [documents_loaded |-> Cardinality(DOMAIN documents_),
                total_documents |-> metadata_.total_documents,
                bytes_loaded |-> bytes_loaded_,
                total_bytes |-> metadata_.total_bytes,
                state |-> "Running"]
        /\ AllAccepted => result.progress.value.bytes_loaded = BagSum(sizes)

C17_Witness ==
    /\ result.op = "AddElement"
    /\ result.status = "Ok"
    /\ result.progress.has_value
    /\ result.progress.value.documents_loaded = 2
    /\ result.progress.value.bytes_loaded = 2
    /\ result.progress.value.total_documents = 1

\* The query names received as NamedQuery elements, and those listed in the
\* metadata index.
ReceivedNames == {queries_[i].query_name : i \in 1..Len(queries_)}
ListedNames == UNION {Range(documents_metadata_[k].queries) : k \in DOMAIN documents_metadata_}

\* C18: the query-document mapping has an entry for every received name and
\* for every name listed in the metadata index, received or not, holding the
\* keys that list it; a listed name that was not received does not make
\* ApplyChanges fail, and SaveNamedQuery is never called for it.
C18_UndeclaredQueryNames ==
    LET mapping == GetQueryDocumentMapping(queries_, documents_metadata_)
    IN  /\ DOMAIN mapping = ReceivedNames \cup ListedNames
        /\ \A name \in ListedNames : mapping[name] = KeysListing(name) /\ mapping[name] # {}
        /\ result.op = "ApplyChanges" =>
               (result.status = "Ok" <=>
                    (/\ current_document_ = None
                     /\ Cardinality(DOMAIN documents_) = metadata_.total_documents))
        /\ \A i \in 1..Len(callback_) :
               callback_[i].fn = "SaveNamedQuery" =>
                   callback_[i].named_query.query_name \in ReceivedNames

C18_Witness ==
    /\ result.op = "ApplyChanges"
    /\ result.status = "Ok"
    /\ ListedNames \ ReceivedNames = {"q1"}
    /\ ReceivedNames = {"q2"}
    /\ Len(callback_) = 3

\* C19: every key of the accumulated documents has an entry in the metadata
\* index, and no AddElement call lowers the document count.
C19_DocumentsHaveMetadata ==
    /\ [](DOMAIN documents_ \subseteq DOMAIN documents_metadata_)
    /\ [][AddElementStep =>
            Cardinality(DOMAIN documents_') >= Cardinality(DOMAIN documents_)]_vars

C19_Witness ==
    /\ Cardinality(DOMAIN documents_) = 2
    /\ \E k \in DOMAIN documents_ : documents_[k].kind = "Document"
    /\ \E k \in DOMAIN documents_ : documents_[k].kind = "NoDocument"
    /\ DOMAIN documents_metadata_ = DOMAIN documents_

\* C20 as stated: after a successful ApplyChanges every key in a key set
\* passed to SaveNamedQuery is a key of the documents passed to
\* ApplyBundledDocuments in the same call.
C20_Original ==
    (result.op = "ApplyChanges" /\ result.status = "Ok") =>
        \A i \in 1..Len(queries_) :
            LastCommit[i + 1].matching_keys \subseteq DOMAIN LastCommit[1].documents

====
